---------------------------- MODULE Spec2Model ----------------------------
(***************************************************************************)
(* m3u-splitter: a model of src/src/main.rs.                               *)
(*                                                                         *)
(* A Rust String is modelled as a sequence of characters, each character a *)
(* TLA+ string: the character itself when it is ASCII, the name of its     *)
(* code point otherwise.  str::find and slicing work on byte offsets  *)
(* in Rust; both always fall on character boundaries here, so the model    *)
(* uses character offsets (0-based, as the code does).                     *)
(* A file is the sequence of characters written to it, line feeds          *)
(* included.  The input file is modelled after BufRead::lines(): a         *)
(* sequence of lines without their terminators.                            *)
(***************************************************************************)
EXTENDS Integers, Sequences, FiniteSets, TLC

VARIABLES
    pc,          \* position of main / of the function under check
    inputExists, \* args.input.exists()
    dryRun,      \* args.dry_run
    lines,       \* the input file's lines (parse_m3u_file: lines)
    i,           \* parse_m3u_file: i
    channels,    \* parse_m3u_file: channels / main: channels
    gi,          \* main: number of channels the grouping loop has consumed
    groups,      \* main: groups (HashMap<String, Vec<Channel>>)
    report,      \* the per-group counts printed by main
    dirCreated,  \* fs::create_dir_all(&args.output) has succeeded
    fs,          \* the files of the output directory: name -> content
    remaining,   \* keys the writing loop has not visited yet
    wlog,        \* history: the calls of write_group_file, in order
    fsBefore,    \* history: fs as it was when the last call began
    exitCode,    \* the process's exit status (-1 while running)
    arg,         \* argument of the pure function under check
    ret,         \* its result
    ret2         \* the result of applying it to its own result

vars == <<pc, inputExists, dryRun, lines, i, channels, gi, groups, report,
          dirCreated, fs, remaining, wlog, fsBefore, exitCode, arg, ret, ret2>>

-----------------------------------------------------------------------------
(* Bounds of the model *)

MaxLines == 4
MaxChannels == 3
MaxNameLen == 4
MaxValLen == 2

-----------------------------------------------------------------------------
(* Characters and string literals *)

NL == "\n"
DQ == "\""
SQ == "'"
SP == " "
TAB == "\t"
US == "_"
\* non-ASCII characters, by code point
EAcute == "U+00E9"
UAcute == "U+00FA"
Bei == "U+5317"
Jing == "U+4EAC"

AsciiAlphanumeric ==
    {"a","b","c","d","e","f","g","h","i","j","k","l","m",
     "n","o","p","q","r","s","t","u","v","w","x","y","z",
     "A","B","C","D","E","F","G","H","I","J","K","L","M",
     "N","O","P","Q","R","S","T","U","V","W","X","Y","Z",
     "0","1","2","3","4","5","6","7","8","9"}

\* char::is_whitespace for the characters the model uses
IsWhitespace(c) == c \in {" ", "\t", "\n", "\r"}

ExtinfToken == <<"#","E","X","T","I","N","F",":">>
KeyDouble == <<"g","r","o","u","p","-","t","i","t","l","e","=","\"">>
KeySingle == <<"g","r","o","u","p","-","t","i","t","l","e","=","'">>
UnknownLabel == <<"U","n","k","n","o","w","n">>
M3uHeader == <<"#","E","X","T","M","3","U">>
M3uExt == <<".","m","3","u">>

-----------------------------------------------------------------------------
(* str primitives *)

\* s[from..] : the suffix starting at 0-based offset from
SliceFrom(s, from) == SubSeq(s, from + 1, Len(s))

\* s[from..to] : 0-based, to exclusive
Slice(s, from, to) == SubSeq(s, from + 1, to)

StartsWith(s, pat) ==
    /\ Len(s) >= Len(pat)
    /\ SubSeq(s, 1, Len(pat)) = pat

\* str::find(pattern): the 0-based offset of the first match, -1 for None
RECURSIVE FindFrom(_, _, _)
FindFrom(s, pat, k) ==
    IF k + Len(pat) > Len(s) THEN -1
    ELSE IF SubSeq(s, k + 1, k + Len(pat)) = pat THEN k
    ELSE FindFrom(s, pat, k + 1)

Find(s, pat) == FindFrom(s, pat, 0)

RECURSIVE TrimStart(_)
TrimStart(s) ==
    IF s = <<>> THEN s
    ELSE IF IsWhitespace(Head(s)) THEN TrimStart(Tail(s))
    ELSE s

RECURSIVE TrimEnd(_)
TrimEnd(s) ==
    IF s = <<>> THEN s
    ELSE IF IsWhitespace(s[Len(s)]) THEN TrimEnd(SubSeq(s, 1, Len(s) - 1))
    ELSE s

\* str::trim
Trim(s) == TrimEnd(TrimStart(s))

\* str::replace(from, to) for a one-character pattern
RECURSIVE Replace(_, _, _)
Replace(s, from, to) ==
    IF s = <<>> THEN <<>>
    ELSE (IF Head(s) = from THEN to ELSE <<Head(s)>>) \o Replace(Tail(s), from, to)

-----------------------------------------------------------------------------
(* parse_group_name *)

None == [some |-> FALSE, val |-> <<>>]
Some(v) == [some |-> TRUE, val |-> v]

\* one of the two `if let Some(start) = find(key)` blocks: the value between
\* the key's quote and the next such quote, or None
QuotedAfter(extinf_line, key, quote) ==
    LET found == Find(extinf_line, key) IN
    IF found = -1 THEN None
    ELSE LET start == found + Len(key)
             end == Find(SliceFrom(extinf_line, start), <<quote>>)
         IN IF end = -1 THEN None
            ELSE Some(Slice(extinf_line, start, start + end))

\* faulty variant: the single-quoted form is tried first
SingleQuotesFirst(extinf_line) ==
    LET single == QuotedAfter(extinf_line, KeySingle, SQ) IN
    IF single.some THEN single
    ELSE QuotedAfter(extinf_line, KeyDouble, DQ)

parse_group_name(extinf_line) ==
    LET double == QuotedAfter(extinf_line, KeyDouble, DQ) IN
    IF double.some THEN double
    ELSE QuotedAfter(extinf_line, KeySingle, SQ)

-----------------------------------------------------------------------------
(* sanitize_filename *)

\* faulty variant: the underscore is not among the characters kept
KeepNoUnderscore(c) == c \in AsciiAlphanumeric \/ c = "-" \/ c = SP

\* the filter's closure
Keep(c) == c \in AsciiAlphanumeric \/ c = "-" \/ c = US \/ c = SP

\* faulty variant: a run of spaces becomes one underscore
SanitizeCollapsing(group_name) ==
    LET t == Trim(SelectSeq(group_name, Keep))
        idx == {k \in 1..Len(t) : ~(t[k] = SP /\ k > 1 /\ t[k - 1] = SP)}
        RECURSIVE Pick(_)
        Pick(k) == IF k > Len(t) THEN <<>>
                   ELSE (IF k \in idx THEN <<t[k]>> ELSE <<>>) \o Pick(k + 1)
    IN Replace(Pick(1), SP, <<US>>)

sanitize_filename(group_name) ==
    Replace(Trim(SelectSeq(group_name, Keep)), SP, <<US>>)

-----------------------------------------------------------------------------
(* parse_m3u_file *)

\* line.starts_with("#EXTINF:")
IsDescriptor(line) == StartsWith(line, ExtinfToken)

\* faulty variant: no fallback label
UnwrapOrEmpty(opt) == IF opt.some THEN opt.val ELSE <<>>

\* .unwrap_or_else(|| "Unknown".to_string())
UnwrapOrUnknown(opt) == IF opt.some THEN opt.val ELSE UnknownLabel

\* faulty variant: the locator is stored without trimming
LocatorUntrimmed(next) == next

\* lines[i + 1].trim().to_string()
Locator(next) == Trim(next)

\* the Channel pushed for the trimmed descriptor `line` and the raw line after it
MakeChannel(line, next) ==
    [extinf_line |-> line,
     url |-> Locator(next),
     group_name |-> UnwrapOrUnknown(parse_group_name(line))]

\* faulty variant: the locator line is scanned again
AdvanceByOne(k) == k + 1

\* i += 2 after a descriptor and its locator
AdvancePastEntry(k) == k + 2

-----------------------------------------------------------------------------
(* main: grouping *)

EmptyMap == [k \in {} |-> <<>>]

\* faulty variant: the entry is put in front of its group
GroupPrepend(gs, channel) ==
    [g \in DOMAIN gs \cup {channel.group_name} |->
        IF g = channel.group_name
        THEN <<channel>> \o (IF g \in DOMAIN gs THEN gs[g] ELSE <<>>)
        ELSE gs[g]]

\* groups.entry(channel.group_name.clone()).or_default().push(channel)
GroupPush(gs, channel) ==
    [g \in DOMAIN gs \cup {channel.group_name} |->
        IF g = channel.group_name
        THEN Append(IF g \in DOMAIN gs THEN gs[g] ELSE <<>>, channel)
        ELSE gs[g]]

-----------------------------------------------------------------------------
(* write_group_file *)

\* format!("{}.m3u", sanitized_name), joined to the output directory
FileName(group_name) == sanitize_filename(group_name) \o M3uExt

\* writeln!(file, "{}", s)
Writeln(file, s) == file \o s \o <<NL>>

\* faulty variant: the locator is written before the metadata line
RECURSIVE ChannelLinesSwapped(_)
ChannelLinesSwapped(chs) ==
    IF chs = <<>> THEN <<>>
    ELSE <<Head(chs).url, Head(chs).extinf_line>> \o ChannelLinesSwapped(Tail(chs))

\* the strings the `for channel in channels` loop writes, in order
RECURSIVE ChannelLines(_)
ChannelLines(chs) ==
    IF chs = <<>> THEN <<>>
    ELSE <<Head(chs).extinf_line, Head(chs).url>> \o ChannelLines(Tail(chs))

\* every string write_group_file passes to writeln!, in order
WriteCalls(chs) == <<M3uHeader>> \o ChannelLines(chs)

\* the file after File::create and the first k writeln! calls
RECURSIVE WriteFirst(_, _)
WriteFirst(calls, k) ==
    IF k = 0 THEN <<>> ELSE Writeln(WriteFirst(calls, k - 1), calls[k])

\* faulty variant: the file is opened for appending
AppendToFile(files, name, content) ==
    [f \in DOMAIN files \cup {name} |->
        IF f = name THEN (IF f \in DOMAIN files THEN files[f] ELSE <<>>) \o content
        ELSE files[f]]

\* File::create(path) followed by the writes: the file holds exactly `content`
PutFile(files, name, content) ==
    [f \in DOMAIN files \cup {name} |-> IF f = name THEN content ELSE files[f]]

-----------------------------------------------------------------------------
(* main: control flow *)

\* faulty variant: the dry-run flag is ignored
AlwaysWrite(dry) == "mkdir"

\* if args.dry_run { return Ok(()) }
AfterReport(dry) == IF dry THEN "exit" ELSE "mkdir"

\* if channels.is_empty() { return Ok(()) }
AfterParse(chs) == IF chs = <<>> THEN "exit" ELSE "group"

\* faulty variant: the error of a write is dropped and the loop goes on
KeepWriting == "write"

\* write_group_file(..)? : the error leaves main
AfterWriteError == "exit"

-----------------------------------------------------------------------------
(* Inputs *)

SeqsUpTo(S, n) == UNION {[1..k -> S] : k \in 0..n}

\* #EXTINF:1 group-title="A",x
DescA == ExtinfToken \o <<"1", SP>> \o KeyDouble \o <<"A", DQ, ",", "x">>
\* the same kind of line with surrounding whitespace, single quotes and a
\* group name that sanitizes to "A" as well:  #EXTINF:1 group-title='A&'
DescAmp == <<SP>> \o ExtinfToken \o <<"1", SP>> \o KeySingle \o <<"A", "&", SQ, TAB>>
\* #EXTINF:1,z
DescNone == ExtinfToken \o <<"1", ",", "z">>
Descriptors == {DescA, DescAmp, DescNone}
\* #EXTINF:1 group-title="a"
DescLower == ExtinfToken \o <<"1", SP>> \o KeyDouble \o <<"a", DQ>>

UrlPadded == <<SP, "u">>
Blank == <<>>
InputLines == Descriptors \cup {M3uHeader, UrlPadded, Blank}

\* what the parser can yield for the descriptors above
ParsedChannels ==
    {MakeChannel(Trim(d), u) : d \in Descriptors \cup {DescLower}, u \in {<<"u">>, <<"v">>}}

StaleName == <<"A">> \o M3uExt
StaleFiles == [f \in {StaleName} |-> <<"o", "l", "d", NL>>]

NameChars == {"a", "1", SP, "&", US, "-", TAB}
FixedNames ==
    {<<"K","i","d","s",SP,"&",SP,"F","a","m","i","l","y">>,
     <<Bei, Jing>>,
     <<SP,SP,"C","a","f",EAcute,SP,SP>>}
Names == SeqsUpTo(NameChars, MaxNameLen) \cup FixedNames

ValChars == {"&", EAcute, DQ, SQ}
Tails == SeqsUpTo(ValChars, MaxValLen)
Segments == Tails \cup {KeyDouble \o t : t \in Tails} \cup {KeySingle \o t : t \in Tails}
DescriptorTexts ==
    {ExtinfToken \o a \o <<SP>> \o b : a \in Segments, b \in Segments}
    \cup {ExtinfToken \o <<"1", SP>> \o KeyDouble
             \o <<"C","a","f",EAcute,SP,"&",SP,"M",UAcute,"s","i","c","a",DQ,",","S">>}

-----------------------------------------------------------------------------
(* The run of main *)

Idle ==
    /\ arg = <<>>
    /\ ret = None
    /\ ret2 = None

Fresh ==
    /\ i = 0
    /\ gi = 0
    /\ groups = EmptyMap
    /\ report = EmptyMap
    /\ dirCreated = FALSE
    /\ remaining = {}
    /\ wlog = <<>>
    /\ exitCode = -1

Init ==
    /\ pc = "start"
    /\ inputExists \in BOOLEAN
    /\ dryRun \in BOOLEAN
    /\ lines \in (IF inputExists THEN SeqsUpTo(InputLines, MaxLines) ELSE {<<>>})
    /\ channels = <<>>
    /\ fs = EmptyMap
    /\ fsBefore = EmptyMap
    /\ Fresh
    /\ Idle

\* if !args.input.exists() { eprintln!(..); std::process::exit(1) }
CheckInput ==
    /\ pc = "start"
    /\ IF inputExists
       THEN pc' = "read" /\ UNCHANGED exitCode
       ELSE pc' = "exit" /\ exitCode' = 1
    /\ UNCHANGED <<inputExists, dryRun, lines, i, channels, gi, groups, report,
                   dirCreated, fs, remaining, wlog, fsBefore, arg, ret, ret2>>

\* File::open and reader.lines().collect() succeed
ReadOk ==
    /\ pc = "read"
    /\ pc' = "parse"
    /\ i' = 0
    /\ channels' = <<>>
    /\ UNCHANGED <<inputExists, dryRun, lines, gi, groups, report, dirCreated,
                   fs, remaining, wlog, fsBefore, exitCode, arg, ret, ret2>>

\* File::open or a read fails: `?` returns the error from main
ReadFail ==
    /\ pc = "read"
    /\ pc' = "exit"
    /\ exitCode' = 1
    /\ UNCHANGED <<inputExists, dryRun, lines, i, channels, gi, groups, report,
                   dirCreated, fs, remaining, wlog, fsBefore, arg, ret, ret2>>

\* one iteration of `while i < lines.len()`
ParseStep ==
    /\ pc = "parse"
    /\ i < Len(lines)
    /\ LET line == Trim(lines[i + 1]) IN
       IF IsDescriptor(line)
       THEN IF i + 1 < Len(lines)
            THEN /\ channels' = Append(channels, MakeChannel(line, lines[i + 2]))
                 /\ i' = AdvancePastEntry(i)
            ELSE /\ i' = i + 1
                 /\ UNCHANGED channels
       ELSE /\ i' = i + 1
            /\ UNCHANGED channels
    /\ UNCHANGED <<pc, inputExists, dryRun, lines, gi, groups, report, dirCreated,
                   fs, remaining, wlog, fsBefore, exitCode, arg, ret, ret2>>

\* the loop ends, Ok(channels) returns, and main tests channels.is_empty()
ParseDone ==
    /\ pc = "parse"
    /\ i >= Len(lines)
    /\ pc' = AfterParse(channels)
    /\ exitCode' = IF pc' = "exit" THEN 0 ELSE exitCode
    /\ gi' = 0
    /\ groups' = EmptyMap
    /\ UNCHANGED <<inputExists, dryRun, lines, i, channels, report, dirCreated,
                   fs, remaining, wlog, fsBefore, arg, ret, ret2>>

\* one iteration of `for channel in channels`
GroupStep ==
    /\ pc = "group"
    /\ gi < Len(channels)
    /\ groups' = GroupPush(groups, channels[gi + 1])
    /\ gi' = gi + 1
    /\ UNCHANGED <<pc, inputExists, dryRun, lines, i, channels, report, dirCreated,
                   fs, remaining, wlog, fsBefore, exitCode, arg, ret, ret2>>

\* the statistics are printed, then the dry-run test
Report ==
    /\ pc = "group"
    /\ gi >= Len(channels)
    /\ report' = [g \in DOMAIN groups |-> Len(groups[g])]
    /\ pc' = AfterReport(dryRun)
    /\ exitCode' = IF pc' = "exit" THEN 0 ELSE exitCode
    /\ UNCHANGED <<inputExists, dryRun, lines, i, channels, gi, groups, dirCreated,
                   fs, remaining, wlog, fsBefore, arg, ret, ret2>>

\* fs::create_dir_all(&args.output)? succeeds
CreateDirOk ==
    /\ pc = "mkdir"
    /\ dirCreated' = TRUE
    /\ remaining' = DOMAIN groups
    /\ pc' = "write"
    /\ UNCHANGED <<inputExists, dryRun, lines, i, channels, gi, groups, report,
                   fs, wlog, fsBefore, exitCode, arg, ret, ret2>>

\* fs::create_dir_all(&args.output)? fails
CreateDirFail ==
    /\ pc = "mkdir"
    /\ pc' = "exit"
    /\ exitCode' = 1
    /\ UNCHANGED <<inputExists, dryRun, lines, i, channels, gi, groups, report,
                   dirCreated, fs, remaining, wlog, fsBefore, arg, ret, ret2>>

\* write_group_file for the key the HashMap's iterator yields next (any of
\* those left): every call succeeds
WriteGroupOk(g) ==
    /\ pc = "write"
    /\ g \in remaining
    /\ LET calls == WriteCalls(groups[g]) IN
       fs' = PutFile(fs, FileName(g), WriteFirst(calls, Len(calls)))
    /\ fsBefore' = fs
    /\ wlog' = Append(wlog, [group |-> g, file |-> FileName(g), ok |-> TRUE])
    /\ remaining' = remaining \ {g}
    /\ UNCHANGED <<pc, inputExists, dryRun, lines, i, channels, gi, groups, report,
                   dirCreated, exitCode, arg, ret, ret2>>

\* File::create fails: nothing is touched, the error leaves main
WriteGroupCreateFails(g) ==
    /\ pc = "write"
    /\ g \in remaining
    /\ fsBefore' = fs
    /\ wlog' = Append(wlog, [group |-> g, file |-> FileName(g), ok |-> FALSE])
    /\ pc' = AfterWriteError
    /\ exitCode' = IF pc' = "exit" THEN 1 ELSE exitCode
    /\ remaining' = remaining \ {g}
    /\ UNCHANGED <<inputExists, dryRun, lines, i, channels, gi, groups, report,
                   dirCreated, fs, arg, ret, ret2>>

\* File::create succeeds (the file is truncated), k writeln! calls succeed and
\* the next one fails: the error leaves main.  (The failing call may also
\* leave a part of its line behind; a file whose write failed is only ever
\* compared with what it held before.)
WriteGroupWriteFails(g, k) ==
    /\ pc = "write"
    /\ g \in remaining
    /\ k \in 0..(Len(WriteCalls(groups[g])) - 1)
    /\ fs' = PutFile(fs, FileName(g), WriteFirst(WriteCalls(groups[g]), k))
    /\ fsBefore' = fs
    /\ wlog' = Append(wlog, [group |-> g, file |-> FileName(g), ok |-> FALSE])
    /\ pc' = AfterWriteError
    /\ exitCode' = IF pc' = "exit" THEN 1 ELSE exitCode
    /\ remaining' = remaining \ {g}
    /\ UNCHANGED <<inputExists, dryRun, lines, i, channels, gi, groups, report,
                   dirCreated, arg, ret, ret2>>

\* the writing loop is over: "Done!", Ok(())
Finish ==
    /\ pc = "write"
    /\ remaining = {}
    /\ pc' = "exit"
    /\ exitCode' = 0
    /\ UNCHANGED <<inputExists, dryRun, lines, i, channels, gi, groups, report,
                   dirCreated, fs, remaining, wlog, fsBefore, arg, ret, ret2>>

WriteOk == \E g \in remaining : WriteGroupOk(g)
WriteCreateFails == \E g \in remaining : WriteGroupCreateFails(g)
WriteFails == \E g \in remaining : \E k \in 0..(2 * Len(channels)) : WriteGroupWriteFails(g, k)

Next ==
    \/ CheckInput
    \/ ReadOk
    \/ ReadFail
    \/ ParseStep
    \/ ParseDone
    \/ GroupStep
    \/ Report
    \/ CreateDirOk
    \/ CreateDirFail
    \/ WriteOk
    \/ WriteCreateFails
    \/ WriteFails
    \/ Finish

Spec == Init /\ [][Next]_vars

-----------------------------------------------------------------------------
(* The grouper and the writer on their own: main from the point where the  *)
(* parser has returned a non-empty vector.                                 *)

InitGroupWrite ==
    /\ pc = "group"
    /\ inputExists = TRUE
    /\ dryRun = FALSE
    /\ lines = <<>>
    /\ channels \in SeqsUpTo(ParsedChannels, MaxChannels) \ {<<>>}
    /\ fs \in {EmptyMap, StaleFiles}
    /\ fsBefore = fs
    /\ Fresh
    /\ Idle

NextGroupWrite ==
    \/ GroupStep
    \/ Report
    \/ CreateDirOk
    \/ CreateDirFail
    \/ WriteOk
    \/ WriteCreateFails
    \/ WriteFails
    \/ Finish

SpecGroupWrite == InitGroupWrite /\ [][NextGroupWrite]_vars

-----------------------------------------------------------------------------
(* parse_group_name and sanitize_filename on their own *)

NoRun ==
    /\ inputExists = FALSE
    /\ dryRun = FALSE
    /\ lines = <<>>
    /\ channels = <<>>
    /\ fs = EmptyMap
    /\ fsBefore = EmptyMap
    /\ Fresh

InitGroupName ==
    /\ pc = "call"
    /\ arg \in DescriptorTexts
    /\ ret = None
    /\ ret2 = None
    /\ NoRun

CallParseGroupName ==
    /\ pc = "call"
    /\ ret' = parse_group_name(arg)
    /\ pc' = "returned"
    /\ UNCHANGED <<inputExists, dryRun, lines, i, channels, gi, groups, report,
                   dirCreated, fs, remaining, wlog, fsBefore, exitCode, arg, ret2>>

SpecGroupName == InitGroupName /\ [][CallParseGroupName]_vars

InitSanitize ==
    /\ pc = "call"
    /\ arg \in Names
    /\ ret = <<>>
    /\ ret2 = <<>>
    /\ NoRun

CallSanitize ==
    /\ pc = "call"
    /\ ret' = sanitize_filename(arg)
    /\ pc' = "once"
    /\ UNCHANGED <<inputExists, dryRun, lines, i, channels, gi, groups, report,
                   dirCreated, fs, remaining, wlog, fsBefore, exitCode, arg, ret2>>

CallSanitizeAgain ==
    /\ pc = "once"
    /\ ret2' = sanitize_filename(ret)
    /\ pc' = "twice"
    /\ UNCHANGED <<inputExists, dryRun, lines, i, channels, gi, groups, report,
                   dirCreated, fs, remaining, wlog, fsBefore, exitCode, arg, ret>>

NextSanitize ==
    \/ CallSanitize
    \/ CallSanitizeAgain

SpecSanitize == InitSanitize /\ [][NextSanitize]_vars

-----------------------------------------------------------------------------
(* Vocabulary of the properties, stated without the operators above *)

\* the j-th smallest element of a finite set of integers
NthOf(S, j) == CHOOSE k \in S : Cardinality({m \in S : m < k}) = j - 1

\* pat occurs in s at the 1-based position p
OccursAt(s, pat, p) ==
    /\ p + Len(pat) - 1 <= Len(s)
    /\ \A k \in 1..Len(pat) : s[p + k - 1] = pat[k]

MinOf(S) == CHOOSE k \in S : \A m \in S : k <= m
MaxOf(S) == CHOOSE k \in S : \A m \in S : k >= m

\* the value of the attribute written key VALUE quote: VALUE lies between the
\* first occurrence of the key and the first quote after it; absent when the
\* key does not occur or no quote follows it
QuotedValue(s, key, quote) ==
    LET at == {p \in 1..(Len(s) - Len(key) + 1) : OccursAt(s, key, p)} IN
    IF at = {} THEN [some |-> FALSE, val |-> <<>>]
    ELSE LET from == MinOf(at) + Len(key)
             closing == {q \in from..Len(s) : s[q] = quote}
         IN IF closing = {} THEN [some |-> FALSE, val |-> <<>>]
            ELSE [some |-> TRUE, val |-> [k \in 1..(MinOf(closing) - from) |-> s[from + k - 1]]]

HasQuoted(s, key, quote) == QuotedValue(s, key, quote).some

\* s without its leading and trailing whitespace
Stripped(s) ==
    LET solid == {k \in 1..Len(s) : s[k] \notin {" ", "\t", "\n", "\r"}} IN
    IF solid = {} THEN <<>> ELSE SubSeq(s, MinOf(solid), MaxOf(solid))

\* after trimming, the line begins with #EXTINF:
LooksLikeDescriptor(l) ==
    \E n \in 0..Len(l) :
        /\ \A m \in 1..n : l[m] \in {" ", "\t", "\n", "\r"}
        /\ OccursAt(l, <<"#","E","X","T","I","N","F",":">>, n + 1)

\* Heads[k]: line k is a descriptor that is not the locator of the line
\* before it and has a line after it
Heads ==
    LET shaped == [k \in 1..Len(lines) |-> LooksLikeDescriptor(lines[k])]
        head[k \in 1..Len(lines)] ==
            /\ shaped[k]
            /\ k < Len(lines)
            /\ (k = 1 \/ ~head[k - 1])
    IN head

\* the heads the scan has passed
HeadsPassed ==
    LET head == Heads IN
    {k \in 1..Len(lines) : head[k] /\ (pc = "parse" => k <= i)}

\* the parser is scanning, or has just returned its vector to main (which
\* either starts grouping or, the vector being empty, ends the run)
Scanning ==
    \/ pc = "parse"
    \/ pc = "group" /\ gi = 0
    \/ pc = "exit" /\ exitCode = 0 /\ channels = <<>>

\* the lines of a file's content, each ended by a line feed
RECURSIVE SplitLines(_)
SplitLines(c) ==
    IF c = <<>> THEN <<>>
    ELSE LET ends == {k \in 1..Len(c) : c[k] = "\n"}
             n == IF ends = {} THEN Len(c) + 1 ELSE MinOf(ends)
         IN <<SubSeq(c, 1, n - 1)>> \o SplitLines(SubSeq(c, n + 1, Len(c)))

UnknownFile == <<"U","n","k","n","o","w","n",".","m","3","u">>

-----------------------------------------------------------------------------
(* C1 *)

\* C1: for every descriptor line that contains group-title="X", parse_group_name
\* returns X, the text between the quote that ends the first occurrence of the
\* key and the next double quote; a line without the double-quoted form that
\* contains group-title='X' gives X in the same way (double quotes are tried
\* first).  X may be empty, non-ASCII, or contain '&'.
C1_GroupNameExtracted ==
    pc = "returned" =>
        LET double == QuotedValue(arg, KeyDouble, DQ)
            single == QuotedValue(arg, KeySingle, SQ)
        IN /\ double.some => ret = double
           /\ (~double.some /\ single.some) => ret = single

\* both forms are present, the single-quoted one first in the line, and the
\* double-quoted value, a non-ASCII character, is returned
C1_Witness ==
    /\ pc = "returned"
    /\ HasQuoted(arg, KeySingle, SQ)
    /\ HasQuoted(arg, KeyDouble, DQ)
    /\ Find(arg, KeySingle) < Find(arg, KeyDouble)
    /\ ret = [some |-> TRUE, val |-> <<EAcute>>]

-----------------------------------------------------------------------------
(* C2 *)

LacksGroupTitle(l) ==
    /\ ~HasQuoted(l, KeyDouble, DQ)
    /\ ~HasQuoted(l, KeySingle, SQ)

Ungrouped == {k \in 1..Len(channels) : LacksGroupTitle(channels[k].extinf_line)}

\* C2: every Entry parsed from a descriptor without a group-title attribute has
\* group "Unknown"; in a run that ends successfully and is not a dry run,
\* write_group_file is called for the group "Unknown" with the file Unknown.m3u,
\* and when that call returns the file holds each such entry's two lines.
C2_MissingGroupIsUnknown ==
    /\ \A k \in Ungrouped : channels[k].group_name = UnknownLabel
    /\ (pc = "exit" /\ exitCode = 0 /\ ~dryRun /\ Ungrouped # {}) =>
          \E w \in 1..Len(wlog) :
              /\ wlog[w].group = UnknownLabel
              /\ wlog[w].file = UnknownFile
              /\ wlog[w].ok
    /\ (wlog # <<>> /\ wlog[Len(wlog)].ok /\ wlog[Len(wlog)].group = UnknownLabel) =>
          /\ UnknownFile \in DOMAIN fs
          /\ LET written == SplitLines(fs[UnknownFile]) IN
             \A k \in Ungrouped :
                \E n \in 1..(Len(written) - 1) :
                    /\ written[n] = channels[k].extinf_line
                    /\ written[n + 1] = channels[k].url

C2_Witness ==
    /\ pc = "exit"
    /\ exitCode = 0
    /\ ~dryRun
    /\ Ungrouped # {}
    /\ UnknownFile \in DOMAIN fs
    /\ Cardinality(DOMAIN groups) = 2

-----------------------------------------------------------------------------
(* C3 *)

\* C3 as stated: while the parser scans and when it returns, every Entry's
\* metadata_line is character for character the input's descriptor line and
\* its locator the line that follows it.
C3_Verbatim ==
    Scanning =>
        LET heads == HeadsPassed IN
        \A j \in 1..Len(channels) :
            LET k == NthOf(heads, j) IN
            /\ channels[j].extinf_line = lines[k]
            /\ channels[j].url = lines[k + 1]

\* C3, amended: while the parser scans and when it returns, every Entry's
\* metadata_line is the input's descriptor line
\* without its leading and trailing whitespace, and its locator is the line
\* that follows, without its leading and trailing whitespace; the characters
\* between are kept as they are.
C3_VerbatimUpToTrim ==
    Scanning =>
        LET heads == HeadsPassed IN
        \A j \in 1..Len(channels) :
            LET k == NthOf(heads, j) IN
            /\ channels[j].extinf_line = Stripped(lines[k])
            /\ channels[j].url = Stripped(lines[k + 1])

\* an Entry whose two lines both carried whitespace at their ends
C3_Witness ==
    /\ pc = "group"
    /\ gi = 0
    /\ Len(channels) = 1
    /\ Len(lines) = 2
    /\ lines[1] # channels[1].extinf_line
    /\ lines[2] # channels[1].url
    /\ channels[1].extinf_line = Stripped(lines[1])
    /\ channels[1].url = <<"u">>

-----------------------------------------------------------------------------
(* C9 *)

\* C9: at every point of the scan the Entries are, in source order, exactly
\* those of the lines passed so far that begin with #EXTINF: after trimming,
\* are not the locator of the descriptor before them and have a line after
\* them; the line after is the locator whatever it holds and gives no Entry
\* of its own; the scan itself never fails, and a descriptor on the last
\* line gives no Entry.
C9_ScanYieldsHeads ==
    /\ Scanning =>
          LET heads == HeadsPassed IN
          /\ Len(channels) = Cardinality(heads)
          /\ \A j \in 1..Len(channels) :
                LET k == NthOf(heads, j) IN
                /\ k < Len(lines)
                /\ LooksLikeDescriptor(lines[k])
                /\ channels[j] = [extinf_line |-> Stripped(lines[k]),
                                  url |-> Stripped(lines[k + 1]),
                                  group_name |-> channels[j].group_name]
                /\ j > 1 => k >= NthOf(heads, j - 1) + 2
    /\ pc = "parse" => (exitCode = -1 /\ i <= Len(lines))

\* three descriptors in a row: the second is the first one's locator, the
\* third is on the last line and is dropped, and the parser returns
C9_Witness ==
    /\ pc = "group"
    /\ gi = 0
    /\ Len(lines) = 3
    /\ \A k \in 1..3 : LooksLikeDescriptor(lines[k])
    /\ Len(channels) = 1
    /\ channels[1].url = Stripped(lines[2])

-----------------------------------------------------------------------------
(* C4 *)

\* the entries grouped so far, in source order
Grouped == SubSeq(channels, 1, gi)

\* the entries of group g among those grouped so far, in source order
MembersOf(g) ==
    LET at == {k \in 1..gi : channels[k].group_name = g} IN
    [j \in 1..Cardinality(at) |-> channels[NthOf(at, j)]]

\* C4: the group mapping is a partition of the entries grouped: its keys are
\* exactly their group names (compared character for character), each key
\* holds exactly the entries of that group, as often as they occur and in
\* source order, so every entry is under its own key and under no other.
C4_GroupsPartitionEntries ==
    pc \in {"group", "mkdir", "write", "exit"} =>
        /\ DOMAIN groups = {channels[k].group_name : k \in 1..gi}
        /\ \A g \in DOMAIN groups : groups[g] = MembersOf(g)
        /\ \A g \in DOMAIN groups : \A k \in 1..Len(groups[g]) :
              groups[g][k].group_name = g

\* three entries, the first and the third in one group and the second in a
\* group whose name differs from it only in case
C4_Witness ==
    /\ pc = "group"
    /\ gi = 3
    /\ channels[1].group_name = <<"A">>
    /\ channels[2].group_name = <<"a">>
    /\ channels[3].group_name = <<"A">>
    /\ channels[1] # channels[3]
    /\ groups[<<"A">>] = <<channels[1], channels[3]>>
    /\ groups[<<"a">>] = <<channels[2]>>

-----------------------------------------------------------------------------
(* C5 *)

LastWrite == wlog[Len(wlog)]

\* C5: when write_group_file has returned Ok for a group, its file is exactly
\* the line #EXTM3U followed, for each entry of the group in source order, by
\* the entry's metadata line and then its locator, every line ended by a line
\* feed, and nothing else: what the file held before is gone.
C5_FileIsHeaderThenEntries ==
    (wlog # <<>> /\ LastWrite.ok) =>
        LET entries == MembersOf(LastWrite.group)
            content == fs[LastWrite.file]
            written == SplitLines(content)
        IN /\ content[Len(content)] = "\n"
           /\ Len(written) = 1 + 2 * Len(entries)
           /\ written[1] = <<"#","E","X","T","M","3","U">>
           /\ \A j \in 1..Len(entries) :
                 /\ written[2 * j] = entries[j].extinf_line
                 /\ written[2 * j + 1] = entries[j].url

\* a group of two different entries has been written over a file that was
\* there before the run
C5_Witness ==
    /\ wlog # <<>>
    /\ LastWrite.ok
    /\ LastWrite.file \in DOMAIN fsBefore
    /\ fsBefore[LastWrite.file] = StaleFiles[StaleName]
    /\ Len(groups[LastWrite.group]) = 2
    /\ groups[LastWrite.group][1] # groups[LastWrite.group][2]

-----------------------------------------------------------------------------
(* C10 *)

WriteFailed == wlog # <<>> /\ ~LastWrite.ok

\* C10 as stated: once a group's write has failed the run has ended in
\* failure, the failed call is the last one, and every file an earlier call of
\* the run wrote is as it was before the failing call.
C10_EarlierFilesUntouched ==
    /\ \A w \in 1..(Len(wlog) - 1) : wlog[w].ok
    /\ WriteFailed =>
          /\ pc = "exit"
          /\ exitCode = 1
          /\ \A w \in 1..(Len(wlog) - 1) :
                /\ wlog[w].file \in DOMAIN fs
                /\ fs[wlog[w].file] = fsBefore[wlog[w].file]

\* C10, amended: once a group's write has failed the run has ended in
\* failure, the failed call is the last one (no later group is written, none
\* is retried), and every file other than the failing group's own is as it
\* was before the failing call; the failing group's own file, which an earlier
\* group of the same sanitized name may have written, may have been truncated
\* or partly rewritten.
C10_FailureIsTerminal ==
    /\ \A w \in 1..(Len(wlog) - 1) : wlog[w].ok
    /\ WriteFailed =>
          /\ pc = "exit"
          /\ exitCode = 1
          /\ \A g \in remaining : \A w \in 1..Len(wlog) : wlog[w].group # g
          /\ DOMAIN fs \subseteq DOMAIN fsBefore \cup {LastWrite.file}
          /\ \A f \in DOMAIN fsBefore :
                f # LastWrite.file => (f \in DOMAIN fs /\ fs[f] = fsBefore[f])

\* one group was written, the next one's write failed after it had truncated
\* its file, and a third group is left unwritten
C10_Witness ==
    /\ WriteFailed
    /\ Len(wlog) = 2
    /\ remaining # {}
    /\ fs # fsBefore
    /\ wlog[1].file # wlog[2].file

-----------------------------------------------------------------------------
(* C6 *)

\* C6: sanitizing a sanitized name changes nothing:
\* sanitize_filename(sanitize_filename(s)) = sanitize_filename(s).
C6_SanitizeIdempotent ==
    pc = "twice" => ret2 = ret

\* a name that sanitizing changed, with a space turned into an underscore
C6_Witness ==
    /\ pc = "twice"
    /\ ret # arg
    /\ \E k \in 1..Len(arg) : arg[k] = " "
    /\ \E k \in 1..Len(ret) : ret[k] = "_"
    /\ ret2 = ret

-----------------------------------------------------------------------------
(* C7 *)

AllowedChar(c) == c \in AsciiAlphanumeric \cup {"-", "_", " "}

\* the name with its disallowed characters deleted, the spaces before the
\* first and after the last other allowed character removed, and each space
\* left turned into one underscore
SanitizedAsSpecified(s) ==
    LET kept == {p \in 1..Len(s) : AllowedChar(s[p])}
        solid == {p \in kept : s[p] # " "}
        inner == IF solid = {} THEN {}
                 ELSE {p \in kept : MinOf(solid) <= p /\ p <= MaxOf(solid)}
    IN [j \in 1..Cardinality(inner) |->
           LET c == s[NthOf(inner, j)] IN IF c = " " THEN "_" ELSE c]

\* C7: sanitize_filename deletes every character other than ASCII letters and
\* digits, '-', '_' and ' ', removes the leading and trailing spaces of what is
\* left and turns each remaining space into one underscore (runs are not
\* collapsed); the result holds only ASCII alphanumerics, '-' and '_'.
C7_SanitizeAsSpecified ==
    pc \in {"once", "twice"} =>
        /\ ret = SanitizedAsSpecified(arg)
        /\ \A k \in 1..Len(ret) : ret[k] \in AsciiAlphanumeric \cup {"-", "_"}
        /\ arg = <<Bei, Jing>> => ret = <<>>
        /\ arg = <<"K","i","d","s"," ","&"," ","F","a","m","i","l","y">>
              => ret = <<"K","i","d","s","_","_","F","a","m","i","l","y">>

\* "Kids & Family" has been sanitized to "Kids__Family"
C7_Witness ==
    /\ pc = "once"
    /\ arg = <<"K","i","d","s"," ","&"," ","F","a","m","i","l","y">>
    /\ ret = <<"K","i","d","s","_","_","F","a","m","i","l","y">>

-----------------------------------------------------------------------------
(* C8 *)

\* C8: the output directory is created and write_group_file is called only in
\* a run whose input exists, whose parse gave at least one entry and which is
\* not a dry run; a dry run ends after the counts of all groups have been
\* reported, and a run whose input is missing ends in failure, both with
\* nothing created or written.
C8_WritesOnlyInRealRuns ==
    /\ (dirCreated \/ wlog # <<>> \/ DOMAIN fs # {} \/ pc \in {"mkdir", "write"}) =>
          (inputExists /\ ~dryRun /\ channels # <<>>)
    /\ (pc = "exit" /\ dryRun /\ channels # <<>>) =>
          /\ exitCode = 0
          /\ DOMAIN report = {channels[k].group_name : k \in 1..Len(channels)}
          /\ \A g \in DOMAIN report :
                report[g] = Cardinality({k \in 1..Len(channels) : channels[k].group_name = g})
    /\ (pc = "exit" /\ ~inputExists) => exitCode = 1

\* a dry run over two entries of two groups has ended after its report
C8_Witness ==
    /\ pc = "exit"
    /\ dryRun
    /\ Len(channels) = 2
    /\ Cardinality(DOMAIN report) = 2
    /\ ~dirCreated
    /\ DOMAIN fs = {}

-----------------------------------------------------------------------------
(* C11 *)

\* the files write_group_file has been called for
Targets == {wlog[w].file : w \in 1..Len(wlog)}

\* the group of the latest call for file f
LastWriterOf(f) == wlog[MaxOf({w \in 1..Len(wlog) : wlog[w].file = f})].group

\* the lines of a playlist of the entries of group g: the header, then each
\* entry's metadata line and locator
PlaylistOf(g) ==
    LET entries == MembersOf(g) IN
    [n \in 1..(1 + 2 * Len(entries)) |->
        IF n = 1 THEN <<"#","E","X","T","M","3","U">>
        ELSE IF n % 2 = 0 THEN entries[n \div 2].extinf_line
        ELSE entries[(n - 1) \div 2].url]

\* C11: as long as no write has failed, every file written holds exactly the
\* header and the entries of the group processed last among those that
\* sanitize to its name, and no metadata line of a group processed earlier
\* (overwrite, not merge or append); so the file of a group that shares its
\* name with no other group holds that group's entries, and a file no group
\* maps to is as it was.  When every group has been written the run ends
\* with success, whether names collided or not.
C11_LastCollidingGroupWins ==
    (pc \in {"write", "exit"} /\ \A w \in 1..Len(wlog) : wlog[w].ok) =>
        /\ \A f \in Targets :
              /\ f \in DOMAIN fs
              /\ SplitLines(fs[f]) = PlaylistOf(LastWriterOf(f))
              /\ \A k \in 1..Len(channels) :
                    (channels[k].group_name # LastWriterOf(f)
                        /\ sanitize_filename(channels[k].group_name) \o M3uExt = f)
                    => \A n \in 1..Len(SplitLines(fs[f])) :
                          SplitLines(fs[f])[n] # channels[k].extinf_line
        /\ \A f \in DOMAIN fs \ Targets : fs[f] = fsBefore[f] /\ fs[f] = StaleFiles[f]
        /\ (pc = "exit" /\ dirCreated /\ Len(wlog) = Cardinality(DOMAIN groups))
              => exitCode = 0

\* a run has ended well in which two groups went to one file, the second
\* over what the first had written, and a third group to a file of its own
C11_Witness ==
    /\ pc = "exit"
    /\ exitCode = 0
    /\ Len(wlog) = 3
    /\ \E v \in 1..3 : \E w \in 1..3 : \E x \in 1..3 :
          /\ v < w
          /\ wlog[v].file = wlog[w].file
          /\ wlog[v].group # wlog[w].group
          /\ wlog[x].file # wlog[w].file
          /\ SplitLines(fs[wlog[w].file]) = PlaylistOf(wlog[w].group)
          /\ SplitLines(fs[wlog[x].file]) = PlaylistOf(wlog[x].group)

=============================================================================
